---- MODULE Spec2Model ----
(***************************************************************************)
(* termcolor: ANSI colour formatting for terminal output.                  *)
(*                                                                         *)
(* A model of src/termcolor/termcolor.py: the Flag / FG / BG enumerations, *)
(* flag_to_code, the colour-support detector _can_do_colour, the formatter *)
(* colored and the print wrapper cprint.                                   *)
(*                                                                         *)
(* Python values are modelled as follows.                                  *)
(*   - a str is a sequence of one-character strings; the character \x1b    *)
(*     is the token "ESC" and the line feed is the token "LF";             *)
(*   - an Optional[X] is a sequence of length at most one: None is <<>>,   *)
(*     a present value v is <<v>>;                                         *)
(*   - a returned Python object is a record [type, items]: a str has one   *)
(*     item, a tuple has one item per element, a bool has the item         *)
(*     <<"True">> or <<"False">>, None has no item;                        *)
(*   - os.environ is a function from the names that are set to values.     *)
(***************************************************************************)
EXTENDS Integers, Sequences, FiniteSets, TLC

VARIABLES
  environ,   \* os.environ: [subset of EnvNames -> value (a str)]
  stdout,    \* what sys.stdout is: "tty", "notty" or "noattr" (no isatty attribute)
  call,      \* the last operation: its name and arguments
  can,       \* what _can_do_colour returned in the last invocation (None before one)
  ret,       \* the Python object the last invocation returned (Pending before it returns)
  written    \* what print wrote in the last cprint: [file, data]

vars == <<environ, stdout, call, can, ret, written>>

----------------------------------------------------------------------------
(* Python values *)

None == <<>>
Some(v) == <<v>>

ESC == "ESC"
LF == "LF"

PyStr(s) == [type |-> "str", items |-> <<s>>]
PyTuple2(a, b) == [type |-> "tuple", items |-> <<a, b>>]
PyBool(b) == [type |-> "bool", items |-> <<IF b THEN <<"True">> ELSE <<"False">>>>]
PyNone == [type |-> "NoneType", items |-> <<>>]
Pending == [type |-> "pending", items |-> <<>>]

\* s1 + s2 + ... for a sequence of strs
RECURSIVE Concat(_)
Concat(ss) == IF ss = <<>> THEN <<>> ELSE Head(ss) \o Concat(Tail(ss))

\* sep.join(ss)
RECURSIVE Join(_, _)
Join(sep, ss) ==
  IF ss = <<>> THEN <<>>
  ELSE IF Len(ss) = 1 THEN Head(ss)
  ELSE Head(ss) \o sep \o Join(sep, Tail(ss))

DigitChar == <<"0", "1", "2", "3", "4", "5", "6", "7", "8", "9">>

\* "%d" % n for n >= 0
RECURSIVE Digits(_)
Digits(n) ==
  IF n < 10 THEN <<DigitChar[n + 1]>>
  ELSE Digits(n \div 10) \o <<DigitChar[(n % 10) + 1]>>

\* "%d" % n
FormatD(n) == IF n < 0 THEN <<"-">> \o Digits(0 - n) ELSE Digits(n)

\* a & b on non-negative integers
RECURSIVE BitAnd(_, _)
BitAnd(a, b) ==
  IF a = 0 \/ b = 0 THEN 0
  ELSE (a % 2) * (b % 2) + 2 * BitAnd(a \div 2, b \div 2)

\* a | b on non-negative integers
RECURSIVE BitOr(_, _)
BitOr(a, b) ==
  IF a = 0 THEN b
  ELSE IF b = 0 THEN a
  ELSE (IF a % 2 = 1 \/ b % 2 = 1 THEN 1 ELSE 0) + 2 * BitOr(a \div 2, b \div 2)

\* repr of one character inside a str literal quoted with q
ReprChar(c, q) ==
  IF c = ESC THEN <<"\\", "x", "1", "b">>
  ELSE IF c = LF THEN <<"\\", "n">>
  ELSE IF c = "\\" THEN <<"\\", "\\">>
  ELSE IF c = q THEN <<"\\", c>>
  ELSE <<c>>

Has(s, c) == \E i \in 1..Len(s) : s[i] = c

\* repr(s) of a str: single quotes, unless s holds ' and no "
Repr(s) ==
  LET q == IF Has(s, "'") /\ ~Has(s, "\"") THEN "\"" ELSE "'"
  IN <<q>> \o Concat([i \in 1..Len(s) |-> ReprChar(s[i], q)]) \o <<q>>

\* str(obj) of a returned object, as print renders it
Str(obj) ==
  IF obj.type = "str" THEN obj.items[1]
  ELSE IF obj.type = "tuple"
    THEN <<"(">> \o Join(<<",", " ">>, [i \in 1..Len(obj.items) |-> Repr(obj.items[i])])
         \o <<")">>
  ELSE IF obj.type = "bool" THEN obj.items[1]
  ELSE <<"N", "o", "n", "e">>

----------------------------------------------------------------------------
(* class Flag(enum.Flag), flag_codes, flag_to_code *)

Flag == [BOLD |-> 1, DARK |-> 2, UNDERLINE |-> 4, BLINK |-> 8,
         REVERSE |-> 16, CONCEALED |-> 32]

\* iteration order of "for x in Flag": definition order
FlagMembers == <<"BOLD", "DARK", "UNDERLINE", "BLINK", "REVERSE", "CONCEALED">>

flag_codes == [BOLD |-> <<"1">>, DARK |-> <<"2">>, UNDERLINE |-> <<"4">>,
               BLINK |-> <<"5">>, REVERSE |-> <<"7">>, CONCEALED |-> <<"8">>]

\* "x in flag" for a member x and a Flag value flag (enum.Flag.__contains__)
FlagContains(flag, x) == BitAnd(Flag[x], flag) = Flag[x]

\* flag_to_code with the codes joined in reverse enumeration order
FlagToCodeReversed(flag) ==
  LET n == Len(FlagMembers)
      flags == [i \in 1..n |->
                  IF FlagContains(flag, FlagMembers[n + 1 - i])
                  THEN flag_codes[FlagMembers[n + 1 - i]] ELSE <<>>]
      kept == SelectSeq(flags, LAMBDA x : x # <<>>)
  IN Join(<<";">>, kept)

flag_to_code(flag) ==
  LET flags == [i \in 1..Len(FlagMembers) |->
                  IF FlagContains(flag, FlagMembers[i])
                  THEN flag_codes[FlagMembers[i]] ELSE <<>>]
      kept == SelectSeq(flags, LAMBDA x : x # <<>>)
  IN Join(<<";">>, kept)

----------------------------------------------------------------------------
(* class BG(enum.IntEnum), class FG(enum.IntEnum), RESET *)

BG == [BLACK |-> 40, RED |-> 41, GREEN |-> 42, YELLOW |-> 43, MAGENTA |-> 45,
       CYAN |-> 46, LIGHT_GRAY |-> 47, DARK_GRAY |-> 100, LIGHT_RED |-> 101,
       LIGHT_GREEN |-> 102, LIGHT_YELLOW |-> 103, LIGHT_BLUE |-> 104,
       LIGHT_MAGENTA |-> 105, LIGHT_CYAN |-> 106, WHITE |-> 107]

FG == [BLACK |-> 30, RED |-> 31, GREEN |-> 32, YELLOW |-> 33, MAGENTA |-> 35,
       CYAN |-> 36, LIGHT_GRAY |-> 37, DARK_GRAY |-> 90, LIGHT_RED |-> 91,
       LIGHT_GREEN |-> 92, LIGHT_YELLOW |-> 93, LIGHT_BLUE |-> 94,
       LIGHT_MAGENTA |-> 95, LIGHT_CYAN |-> 96, WHITE |-> 97]

RESET == <<ESC, "[", "0", "m">>

----------------------------------------------------------------------------
(* _can_do_colour *)

\* hasattr(sys.stdout, "isatty") and sys.stdout.isatty()
StdoutIsatty == stdout # "noattr" /\ stdout = "tty"

\* os.environ.get(name)
EnvGet(name) == IF name \in DOMAIN environ THEN Some(environ[name]) ELSE None

\* _can_do_colour with FORCE_COLOR consulted before NO_COLOR
CanDoColourForceFirst(no_color, force_color) ==
  IF no_color # None /\ no_color[1] THEN FALSE
  ELSE IF force_color # None /\ force_color[1] THEN TRUE
  ELSE IF "ANSI_COLORS_DISABLED" \in DOMAIN environ THEN FALSE
  ELSE IF "FORCE_COLOR" \in DOMAIN environ THEN TRUE
  ELSE IF "NO_COLOR" \in DOMAIN environ THEN FALSE
  ELSE StdoutIsatty /\ EnvGet("TERM") # Some(<<"d", "u", "m", "b">>)

\* _can_do_colour without the isatty test of the last rule
CanDoColourNoTty(no_color, force_color) ==
  IF no_color # None /\ no_color[1] THEN FALSE
  ELSE IF force_color # None /\ force_color[1] THEN TRUE
  ELSE IF "ANSI_COLORS_DISABLED" \in DOMAIN environ THEN FALSE
  ELSE IF "NO_COLOR" \in DOMAIN environ THEN FALSE
  ELSE IF "FORCE_COLOR" \in DOMAIN environ THEN TRUE
  ELSE EnvGet("TERM") # Some(<<"d", "u", "m", "b">>)

\* _can_do_colour that keeps the answer of the previous invocation (a cache)
CanDoColourCached(no_color, force_color) ==
  IF can # None THEN can[1]
  ELSE IF no_color # None /\ no_color[1] THEN FALSE
  ELSE IF force_color # None /\ force_color[1] THEN TRUE
  ELSE IF "ANSI_COLORS_DISABLED" \in DOMAIN environ THEN FALSE
  ELSE IF "NO_COLOR" \in DOMAIN environ THEN FALSE
  ELSE IF "FORCE_COLOR" \in DOMAIN environ THEN TRUE
  ELSE StdoutIsatty /\ EnvGet("TERM") # Some(<<"d", "u", "m", "b">>)

_can_do_colour(no_color, force_color) ==
  IF no_color # None /\ no_color[1] THEN FALSE
  ELSE IF force_color # None /\ force_color[1] THEN TRUE
  ELSE IF "ANSI_COLORS_DISABLED" \in DOMAIN environ THEN FALSE
  ELSE IF "NO_COLOR" \in DOMAIN environ THEN FALSE
  ELSE IF "FORCE_COLOR" \in DOMAIN environ THEN TRUE
  ELSE StdoutIsatty /\ EnvGet("TERM") # Some(<<"d", "u", "m", "b">>)

----------------------------------------------------------------------------
(* colored *)

\* the second element of the tuple colored returns when colour is not allowed
NoAnsiMessage ==
  <<"t", "e", "r", "m", "i", "n", "a", "l", " ", "d", "o", "e", "s", " ",
    "n", "o", "t", " ", "s", "u", "p", "p", "o", "r", "t", " ", "A", "N", "S", "I">>

\* "\033[%dm%s" % (code, text)
FmtStr(code, text) == <<ESC, "[">> \o FormatD(code) \o <<"m">> \o text

\* "\033[%sm%s" % (codes, text)
FmtStrS(codes, text) == <<ESC, "[">> \o codes \o <<"m">> \o text

\* colored closing every style it opened with a RESET of its own
ColoredResetPerStyle(text, color, background_color, flag, no_color, force_color) ==
  IF ~_can_do_colour(no_color, force_color)
  THEN PyTuple2(text, NoAnsiMessage)
  ELSE
    LET t1 == IF color # None THEN FmtStr(color[1], text) \o RESET ELSE text
        t2 == IF background_color # None
              THEN FmtStr(background_color[1], t1) \o RESET ELSE t1
        t3 == IF flag # None THEN FmtStrS(flag_to_code(flag[1]), t2) \o RESET ELSE t2
    IN PyStr(IF t3 = text THEN text \o RESET ELSE t3)

\* colored applying the background before the foreground
ColoredBackgroundFirst(text, color, background_color, flag, no_color, force_color) ==
  IF ~_can_do_colour(no_color, force_color)
  THEN PyTuple2(text, NoAnsiMessage)
  ELSE
    LET t1 == IF background_color # None THEN FmtStr(background_color[1], text) ELSE text
        t2 == IF color # None THEN FmtStr(color[1], t1) ELSE t1
        t3 == IF flag # None THEN FmtStrS(flag_to_code(flag[1]), t2) ELSE t2
    IN PyStr(t3 \o RESET)

\* colored appending RESET only when a style was applied
ColoredResetIfStyled(text, color, background_color, flag, no_color, force_color) ==
  IF ~_can_do_colour(no_color, force_color)
  THEN PyTuple2(text, NoAnsiMessage)
  ELSE
    LET t1 == IF color # None THEN FmtStr(color[1], text) ELSE text
        t2 == IF background_color # None THEN FmtStr(background_color[1], t1) ELSE t1
        t3 == IF flag # None THEN FmtStrS(flag_to_code(flag[1]), t2) ELSE t2
    IN PyStr(IF t3 = text THEN text ELSE t3 \o RESET)

colored(text, color, background_color, flag, no_color, force_color) ==
  IF ~_can_do_colour(no_color, force_color)
  THEN PyTuple2(text, NoAnsiMessage)
  ELSE
    LET t1 == IF color # None THEN FmtStr(color[1], text) ELSE text
        t2 == IF background_color # None THEN FmtStr(background_color[1], t1) ELSE t1
        t3 == IF flag # None THEN FmtStrS(flag_to_code(flag[1]), t2) ELSE t2
    IN PyStr(t3 \o RESET)

----------------------------------------------------------------------------
(* cprint *)

\* print(obj, file=file, end=end): what is written, and where
PrintTo(obj, file, end) == [file |-> file, data |-> Str(obj) \o end]

\* whether the stream a file argument names is interactive; "ttyfile" and
\* "plainfile" are streams other than sys.stdout
FileIsatty(file) ==
  IF file = "stdout" THEN StdoutIsatty ELSE file = "ttyfile"

\* cprint deciding on the interactivity of the stream it writes to
CprintByDestination(text, color, background_color, flag, no_color, force_color, file, end) ==
  LET allowed ==
        IF no_color # None /\ no_color[1] THEN FALSE
        ELSE IF force_color # None /\ force_color[1] THEN TRUE
        ELSE IF "ANSI_COLORS_DISABLED" \in DOMAIN environ THEN FALSE
        ELSE IF "NO_COLOR" \in DOMAIN environ THEN FALSE
        ELSE IF "FORCE_COLOR" \in DOMAIN environ THEN TRUE
        ELSE FileIsatty(file) /\ EnvGet("TERM") # Some(<<"d", "u", "m", "b">>)
      obj == IF allowed
             THEN colored(text, color, background_color, flag, None, Some(TRUE))
             ELSE colored(text, color, background_color, flag, Some(TRUE), None)
  IN PrintTo(obj, file, end)

cprint(text, color, background_color, flag, no_color, force_color, file, end) ==
  PrintTo(colored(text, color, background_color, flag, no_color, force_color), file, end)

----------------------------------------------------------------------------
(* Inputs *)

MaxTextLen == 2
MaxRepeat == 1

Alphabet == {"h", "i"}
SeqsUpTo(S, n) == UNION {[1..k -> S] : k \in 0..n}
Texts == SeqsUpTo(Alphabet, MaxTextLen)
Hi == <<"h", "i">>

Opt(S) == {None} \cup {Some(v) : v \in S}
Tri == Opt(BOOLEAN)

FGValues == {FG[n] : n \in DOMAIN FG}
BGValues == {BG[n] : n \in DOMAIN BG}
\* every value of Flag: Flag(0) and every union of members
FlagValues == 0..(2 * Flag.CONCEALED - 1)
AllFlags == Flag.BOLD + Flag.DARK + Flag.UNDERLINE + Flag.BLINK + Flag.REVERSE
            + Flag.CONCEALED

EnvNames == {"ANSI_COLORS_DISABLED", "NO_COLOR", "FORCE_COLOR", "TERM"}
Dumb == <<"d", "u", "m", "b">>
Xterm == <<"x", "t", "e", "r", "m">>
EnvValuesOf(name) == IF name = "TERM" THEN {Dumb, Xterm} ELSE {<<>>, <<"1">>}
Envs ==
  {e \in UNION {[D -> {<<>>, <<"1">>, Dumb, Xterm}] : D \in SUBSET EnvNames} :
     \A n \in DOMAIN e : e[n] \in EnvValuesOf(n)}
EmptyEnv == [n \in {} |-> <<>>]
StdoutKinds == {"tty", "notty", "noattr"}
Files == {"stdout", "ttyfile", "plainfile"}

\* the ways to write a union of attributes: the members of a set in some
\* order, then up to MaxRepeat of them again
AttrNames == {FlagMembers[i] : i \in 1..Len(FlagMembers)}
Injective(s) == \A i, j \in 1..Len(s) : s[i] = s[j] => i = j
AttrOrders ==
  {p \o r : p \in {s \in SeqsUpTo(AttrNames, Len(FlagMembers)) : Injective(s)},
            r \in SeqsUpTo(AttrNames, MaxRepeat)}

NoArgs == [op |-> "none", text |-> <<>>, color |-> None, background_color |-> None,
           flag |-> None, no_color |-> None, force_color |-> None,
           file |-> "stdout", end |-> <<LF>>, attrs |-> <<>>]
NoWrite == [file |-> "none", data |-> <<>>]

\* a | b | ... for a sequence of attribute names, left to right
RECURSIVE UnionOf(_)
UnionOf(attrs) ==
  IF attrs = <<>> THEN 0
  ELSE BitOr(UnionOf(SubSeq(attrs, 1, Len(attrs) - 1)), Flag[attrs[Len(attrs)]])

----------------------------------------------------------------------------
(* Operations *)

DoCanDoColour(a) ==
  /\ call' = a
  /\ can' = Some(_can_do_colour(a.no_color, a.force_color))
  /\ ret' = PyBool(_can_do_colour(a.no_color, a.force_color))
  /\ written' = NoWrite
  /\ UNCHANGED <<environ, stdout>>

DoColored(a) ==
  /\ call' = a
  /\ can' = Some(_can_do_colour(a.no_color, a.force_color))
  /\ ret' = colored(a.text, a.color, a.background_color, a.flag, a.no_color,
                    a.force_color)
  /\ written' = NoWrite
  /\ UNCHANGED <<environ, stdout>>

DoCprint(a) ==
  /\ call' = a
  /\ can' = Some(_can_do_colour(a.no_color, a.force_color))
  /\ ret' = PyNone
  /\ written' = cprint(a.text, a.color, a.background_color, a.flag, a.no_color,
                       a.force_color, a.file, a.end)
  /\ UNCHANGED <<environ, stdout>>

DoFlagToCode(a) ==
  /\ call' = a
  /\ ret' = PyStr(flag_to_code(UnionOf(a.attrs)))
  /\ written' = NoWrite
  /\ UNCHANGED <<environ, stdout, can>>

----------------------------------------------------------------------------
(* The program: calls of colored and cprint, with the environment changing  *)
(* between them.                                                            *)

ProgColoredCalls ==
  {[NoArgs EXCEPT !.op = "colored", !.text = Hi, !.color = c,
                  !.no_color = nc, !.force_color = fc] :
     c \in {None, Some(FG.RED)}, nc \in Tri, fc \in Tri}

\* the print options passed through: every destination with the default end,
\* and end="" once
ProgPrintOptions == {<<f, <<LF>>>> : f \in Files} \cup {<<"stdout", <<>>>>}

ProgCprintCalls ==
  {[a EXCEPT !.op = "cprint", !.file = k[1], !.end = k[2]] :
     a \in ProgColoredCalls, k \in ProgPrintOptions}

\* the values the environment gives a variable in the program's runs
ProgValuesOf(name) == IF name = "TERM" THEN {Dumb, Xterm} ELSE {<<>>}
ProgEnvs == {e \in Envs : \A n \in DOMAIN e : e[n] \in ProgValuesOf(n)}

Init ==
  /\ environ \in ProgEnvs
  /\ stdout \in StdoutKinds
  /\ call = NoArgs
  /\ can = None
  /\ ret = Pending
  /\ written = NoWrite

EnvOp == [NoArgs EXCEPT !.op = "environ"]

\* os.environ[name] = value, made by the program's environment
Putenv ==
  \E name \in EnvNames : \E value \in ProgValuesOf(name) :
    /\ environ' = [n \in DOMAIN environ \cup {name} |->
                     IF n = name THEN value ELSE environ[n]]
    /\ call' = EnvOp
    /\ UNCHANGED <<stdout, can, ret, written>>

\* del os.environ[name]
Unsetenv ==
  \E name \in DOMAIN environ :
    /\ environ' = [n \in DOMAIN environ \ {name} |-> environ[n]]
    /\ call' = EnvOp
    /\ UNCHANGED <<stdout, can, ret, written>>

\* sys.stdout becomes another stream
SetStdout ==
  \E kind \in StdoutKinds \ {stdout} :
    /\ stdout' = kind
    /\ call' = EnvOp
    /\ UNCHANGED <<environ, can, ret, written>>

Colored == \E a \in ProgColoredCalls : DoColored(a)

Cprint == \E a \in ProgCprintCalls : DoCprint(a)

Next == Putenv \/ Unsetenv \/ SetStdout \/ Colored \/ Cprint

Spec == Init /\ [][Next]_vars

----------------------------------------------------------------------------
(* The functions applied once to inputs drawn from bounded sets.            *)

DetectInputs ==
  {[NoArgs EXCEPT !.op = "_can_do_colour", !.no_color = nc, !.force_color = fc] :
     nc \in Tri, fc \in Tri}

\* every foreground with every background, a few attribute sets
ColourInputs ==
  {[NoArgs EXCEPT !.op = "colored", !.text = t, !.color = c,
                  !.background_color = b, !.flag = f, !.force_color = fc] :
     t \in Texts, c \in Opt(FGValues), b \in Opt(BGValues),
     f \in Opt({0, Flag.BOLD, BitOr(Flag.BOLD, Flag.UNDERLINE), AllFlags}),
     fc \in {None, Some(TRUE)}}

\* every attribute set, a few colours
AttributeInputs ==
  {[NoArgs EXCEPT !.op = "colored", !.text = t, !.color = c,
                  !.background_color = b, !.flag = f, !.force_color = fc] :
     t \in Texts, c \in {None, Some(FG.RED)}, b \in {None, Some(BG.BLACK)},
     f \in Opt(FlagValues), fc \in {None, Some(TRUE)}}

\* every override, a few styles
OverrideInputs ==
  {[NoArgs EXCEPT !.op = "colored", !.text = t, !.color = c,
                  !.no_color = nc, !.force_color = fc] :
     t \in Texts, c \in {None, Some(FG.RED)}, nc \in Tri, fc \in Tri}

FlagInputs == {[NoArgs EXCEPT !.op = "flag_to_code", !.attrs = s] : s \in AttrOrders}

InitFn ==
  /\ \/ /\ call \in DetectInputs \cup OverrideInputs
        /\ environ \in Envs
        /\ stdout \in StdoutKinds
     \/ /\ call \in ColourInputs \cup AttributeInputs
        /\ environ = EmptyEnv
        /\ stdout \in {"tty", "notty"}
     \/ /\ call \in FlagInputs
        /\ environ = EmptyEnv
        /\ stdout = "notty"
  /\ can = None
  /\ ret = Pending
  /\ written = NoWrite

ApplyCanDoColour == ret = Pending /\ call.op = "_can_do_colour" /\ DoCanDoColour(call)

ApplyColored == ret = Pending /\ call.op = "colored" /\ DoColored(call)

ApplyFlagToCode == ret = Pending /\ call.op = "flag_to_code" /\ DoFlagToCode(call)

NextFn == ApplyCanDoColour \/ ApplyColored \/ ApplyFlagToCode

SpecFn == InitFn /\ [][NextFn]_vars

----------------------------------------------------------------------------
(* Properties *)

Returned(op) == call.op = op /\ ret # Pending

\* the ordered rules of the capability detector: <<condition, answer>>
DecisionRules(no_color, force_color) ==
  << <<no_color = Some(TRUE), FALSE>>,
     <<force_color = Some(TRUE), TRUE>>,
     <<"ANSI_COLORS_DISABLED" \in DOMAIN environ, FALSE>>,
     <<"NO_COLOR" \in DOMAIN environ, FALSE>>,
     <<"FORCE_COLOR" \in DOMAIN environ, TRUE>>,
     <<TRUE, stdout = "tty" /\ ("TERM" \notin DOMAIN environ \/ environ["TERM"] # Dumb)>> >>

\* the answer of the first rule whose condition holds
DecisionRule(no_color, force_color) ==
  LET rs == DecisionRules(no_color, force_color)
      first == CHOOSE i \in 1..Len(rs) : rs[i][1] /\ \A j \in 1..(i - 1) : ~rs[j][1]
  IN rs[first][2]

\* C1: _can_do_colour returns the answer of the first matching rule of:
\* no_color True -> disallow; force_color True -> allow; ANSI_COLORS_DISABLED
\* present -> disallow; NO_COLOR present -> disallow; FORCE_COLOR present ->
\* allow; otherwise allow iff stdout is interactive and TERM is not "dumb".
C1_FirstMatchingRule ==
  Returned("_can_do_colour") =>
    ret = PyBool(DecisionRule(call.no_color, call.force_color))

\* NO_COLOR="" disables colour although FORCE_COLOR is set and stdout is a terminal
C1_Witness ==
  /\ Returned("_can_do_colour")
  /\ call.no_color = None /\ call.force_color = None
  /\ "ANSI_COLORS_DISABLED" \notin DOMAIN environ
  /\ "NO_COLOR" \in DOMAIN environ /\ environ["NO_COLOR"] = <<>>
  /\ "FORCE_COLOR" \in DOMAIN environ
  /\ stdout = "tty"
  /\ ret = PyBool(FALSE)

\* C2: when the detector disallows colour, colored returns the input text
\* itself: a single string equal to the text, nothing alongside it.
C2_DisallowedReturnsText ==
  (Returned("colored") /\ can = Some(FALSE)) => ret = PyStr(call.text)

\* the number of places i where sub occurs in s
Occurrences(sub, s) ==
  Cardinality({i \in 1..(Len(s) - Len(sub) + 1) : SubSeq(s, i, i + Len(sub) - 1) = sub})

CountOf(c, s) == Cardinality({i \in 1..Len(s) : s[i] = c})

NumStyles(a) ==
  (IF a.color # None THEN 1 ELSE 0) + (IF a.background_color # None THEN 1 ELSE 0)
  + (IF a.flag # None THEN 1 ELSE 0)

\* C3: when colour is allowed the result of colored is zero to three opening
\* escape sequences (one per style supplied), the text, and the reset
\* sequence ESC[0m exactly once, at the end; with no style it is exactly the
\* text followed by ESC[0m.
C3_SingleTrailingReset ==
  (Returned("colored") /\ can = Some(TRUE)) =>
    /\ ret.type = "str"
    /\ LET s == ret.items[1]
           n == Len(s) - Len(call.text) - Len(RESET)
       IN /\ n >= 0
          /\ SubSeq(s, Len(s) - Len(RESET) + 1, Len(s)) = RESET
          /\ SubSeq(s, n + 1, n + Len(call.text)) = call.text
          /\ CountOf(ESC, SubSeq(s, 1, n)) = NumStyles(call)
          /\ NumStyles(call) \in 0..3
          /\ Occurrences(RESET, s) = 1 + Occurrences(RESET, call.text)
          /\ (NumStyles(call) = 0 => s = call.text \o RESET)

\* three styles on a text: three opening escapes and one reset
C3_Witness ==
  /\ Returned("colored") /\ can = Some(TRUE)
  /\ call.text = Hi
  /\ call.color # None /\ call.background_color # None
  /\ call.flag = Some(AllFlags)
  /\ CountOf(ESC, ret.items[1]) = 4

\* an n below 1000 in decimal
Decimal(n) ==
  LET h == n \div 100
      t == (n \div 10) % 10
      u == n % 10
  IN (IF h > 0 THEN <<DigitChar[h + 1]>> ELSE <<>>)
     \o (IF h > 0 \/ t > 0 THEN <<DigitChar[t + 1]>> ELSE <<>>)
     \o <<DigitChar[u + 1]>>

\* ESC[<params>m
Sgr(params) == <<ESC, "[">> \o params \o <<"m">>

HiRedForced ==
  [NoArgs EXCEPT !.op = "colored", !.text = Hi, !.color = Some(FG.RED),
                 !.force_color = Some(TRUE)]

\* C4: when colour is allowed the result is, from the outside in, the
\* attribute escape (if an attribute set is supplied), the background escape
\* ESC[<bg>m (if supplied), the foreground escape ESC[<fg>m (if supplied),
\* the text, and the reset; each colour escape carries the number of the
\* selector passed. colored("hi", FG.RED, force_color=True) is ESC[31mhiESC[0m.
C4_NestingOrder ==
  /\ (Returned("colored") /\ can = Some(TRUE)) =>
       ret = PyStr((IF call.flag # None THEN Sgr(flag_to_code(call.flag[1])) ELSE <<>>)
                   \o (IF call.background_color # None
                       THEN Sgr(Decimal(call.background_color[1])) ELSE <<>>)
                   \o (IF call.color # None THEN Sgr(Decimal(call.color[1])) ELSE <<>>)
                   \o call.text \o RESET)
  /\ (ret # Pending /\ call = HiRedForced) =>
       ret = PyStr(<<ESC, "[", "3", "1", "m", "h", "i", ESC, "[", "0", "m">>)

C4_Witness ==
  /\ Returned("colored") /\ can = Some(TRUE)
  /\ call.text = Hi
  /\ call.color = Some(FG.RED)
  /\ call.background_color = Some(BG.LIGHT_BLUE)
  /\ call.flag = Some(BitOr(Flag.BOLD, Flag.UNDERLINE))
  /\ ret = PyStr(<<ESC, "[", "1", ";", "4", "m", ESC, "[", "1", "0", "4", "m",
                   ESC, "[", "3", "1", "m", "h", "i", ESC, "[", "0", "m">>)

HiRedOnBlackForced ==
  [NoArgs EXCEPT !.op = "colored", !.text = Hi, !.color = Some(FG.RED),
                 !.background_color = Some(BG.BLACK), !.force_color = Some(TRUE)]

\* C5 as stated: with colour force-enabled, "hi" with foreground RED and
\* background BLACK is ESC[40m ESC[31m hi ESC[0m ESC[0m: two reset sequences.
C5_TwoResets ==
  (ret # Pending /\ call = HiRedOnBlackForced) =>
    ret = PyStr(<<ESC, "[", "4", "0", "m", ESC, "[", "3", "1", "m", "h", "i",
                  ESC, "[", "0", "m", ESC, "[", "0", "m">>)

\* C5 as amended: with colour force-enabled, "hi" with foreground RED and
\* background BLACK is ESC[40m ESC[31m hi ESC[0m: the background escape
\* outside the foreground escape, followed by one reset sequence.
C5_OneReset ==
  (ret # Pending /\ call = HiRedOnBlackForced) =>
    ret = PyStr(<<ESC, "[", "4", "0", "m", ESC, "[", "3", "1", "m", "h", "i",
                  ESC, "[", "0", "m">>)

C5_Witness == ret # Pending /\ call = HiRedOnBlackForced /\ can = Some(TRUE)

NoOverrideNotInteractive ==
  /\ Returned("colored")
  /\ call.no_color = None /\ call.force_color = None
  /\ stdout # "tty"

\* the text colored returns is the input text, with no escape sequence: the
\* text is the str returned, or the first element when a tuple is returned
\* (the tuple itself is C2's subject)
ReturnsTextUnchanged ==
  /\ Len(ret.items) >= 1
  /\ ret.items[1] = call.text
  /\ \A i \in 1..Len(ret.items) : ~Has(ret.items[i], ESC)

ForcedByEnvironment ==
  /\ "FORCE_COLOR" \in DOMAIN environ
  /\ "ANSI_COLORS_DISABLED" \notin DOMAIN environ
  /\ "NO_COLOR" \notin DOMAIN environ

ExpectedCodes(S) ==
  LET pick(name, code) == IF name \in S THEN <<<<code>>>> ELSE <<>>
  IN Join(<<";">>, pick("BOLD", "1") \o pick("DARK", "2") \o pick("UNDERLINE", "4")
                   \o pick("BLINK", "5") \o pick("REVERSE", "7")
                   \o pick("CONCEALED", "8"))

AttrSet(attrs) == {attrs[i] : i \in 1..Len(attrs)}

\* C7: flag_to_code of a union of attributes is the codes of exactly the
\* attributes of the set, each once, joined by ";" in the order 1, 2, 4, 5,
\* 7, 8, whatever the order and the repetitions the union was written with.
C7_CodesInEnumerationOrder ==
  (Returned("flag_to_code") /\ call.attrs # <<>>) =>
    ret = PyStr(ExpectedCodes(AttrSet(call.attrs)))

\* UNDERLINE | BOLD | UNDERLINE gives "1;4"
C7_Witness ==
  /\ Returned("flag_to_code")
  /\ call.attrs = <<"UNDERLINE", "BOLD", "UNDERLINE">>
  /\ ret = PyStr(<<"1", ";", "4">>)

\* C8: when colour is allowed, colored with the empty attribute set Flag(0)
\* returns what it returns with no attribute set (flag=None).
C8_EmptyFlagLikeNone ==
  (Returned("colored") /\ can = Some(TRUE) /\ call.flag = Some(0)) =>
    ret = colored(call.text, call.color, call.background_color, None,
                  call.no_color, call.force_color)

\* C9: a call of colored or cprint leaves the environment as it is, and its
\* decision is the decision rule applied to its own overrides and to the
\* environment at the moment of the call.
C9_DecisionPerCall ==
  [][call'.op \in {"colored", "cprint"} =>
       /\ environ' = environ
       /\ stdout' = stdout
       /\ can' = Some(DecisionRule(call'.no_color, call'.force_color))]_vars

\* a call refused under NO_COLOR on a terminal, after an allowed one
C9_Witness ==
  /\ call.op = "colored"
  /\ call.no_color = None /\ call.force_color = None
  /\ DOMAIN environ = {"NO_COLOR"}
  /\ stdout = "tty"
  /\ can = Some(FALSE)
  /\ ret.type = "tuple"

\* C10: two consecutive cprint calls that differ only in the stream passed
\* as file write the same string, and a cprint call writes an escape
\* sequence exactly when the decision rule, which reads the interactivity of
\* standard output only, allows colour.
C10_DestinationIgnored ==
  [][call'.op = "cprint" =>
       /\ (Has(written'.data, ESC) <=> DecisionRule(call'.no_color, call'.force_color))
       /\ (call.op = "cprint" /\ call' = [call EXCEPT !.file = call'.file]) =>
            written'.data = written.data]_vars

\* escape sequences written to a stream that is not interactive, because
\* standard output is
C10_Witness ==
  /\ call.op = "cprint"
  /\ call.file = "plainfile"
  /\ ~FileIsatty(call.file)
  /\ call.no_color = None /\ call.force_color = None
  /\ environ = EmptyEnv
  /\ stdout = "tty"
  /\ written.file = "plainfile"
  /\ Has(written.data, ESC)

====
